---- MODULE Spec2Model ----
(***************************************************************************)
(* Streaming ensemble anomaly scoring and alerting of the UEBA analytics   *)
(* engine: the stream consumers RealTimeMLInference.monitor_new_logs and   *)
(* RealTimeMLMonitor.process_event_stream, their scorers score_record and  *)
(* predict_anomaly, and the alert dispatcher MLAlertingSystem.             *)
(*                                                                         *)
(* Units.  Scores are kept in sixtieths (Unit = 60 stands for 1.0): every  *)
(* majority vote k/n with n <= 3 and every threshold of the code (0.25,    *)
(* 0.3, 0.5, 0.6, 0.7, 0.75, 0.8, 0.9) is a whole number of sixtieths.     *)
(* Timestamps and the wall clock are whole numbers of poll intervals; the  *)
(* timestamp 0 stands for "no @timestamp field" / None.                    *)
(***************************************************************************)
EXTENDS Integers, Sequences, FiniteSets, TLC

VARIABLES
    clock,                    \* datetime.now(), in poll intervals
    index,                    \* documents held by the Elasticsearch index
    optimized_models,         \* RealTimeMLInference.optimized_models (names loaded)
    last_processed_timestamp, \* RealTimeMLInference.last_processed_timestamp (0 = None)
    iteration,                \* monitor_new_logs: iteration
    max_iterations,           \* monitor_new_logs: max_iterations (NoneIter = None)
    models,                   \* RealTimeMLMonitor.models (names loaded)
    stats,                    \* RealTimeMLMonitor.stats
    running,                  \* RealTimeMLMonitor.running
    pc,                       \* position: "boot", "loaded_inference", "loaded_monitor",
                              \* "init", "inference", "monitor", "done", "stopped"
    scored,                   \* history: per document, verdicts produced for it
    alerted,                  \* history: per document, anomaly alerts raised for it
    visited,                  \* history: documents handed to a scorer
    cycle,                    \* history: what the latest poll cycle did
    alert_counts,             \* MLAlertingSystem.alert_counts
    incidents,                \* security_incidents.log: the address sets appended
    cycle_count,              \* run_monitoring_cycle: cycle_count
    alert_pc,                 \* run_monitoring_cycle: "init", "check", "respond", "done", "failed"
    alert_log,                \* ml_alerts.log: the latest record log_alert wrote
    alert_cycle,              \* history: what the latest monitoring cycle did
    call,                     \* a scorer or classifier call: its arguments
    returned,                 \* what the call returned
    artifacts,                \* the artifact files model_dir holds
    feature_columns,          \* RealTimeMLInference.feature_columns ({} = [])
    exit_code,                \* exit code of the process (NoExit while it runs)
    refit                     \* the loaded estimators that were fitted again since load

streamVars == <<clock, index, optimized_models, last_processed_timestamp, iteration,
                max_iterations, models, stats, running, pc, scored, alerted, visited, cycle>>

-----------------------------------------------------------------------------
alertVars == <<alert_counts, incidents, cycle_count, alert_pc, alert_log, alert_cycle>>

scoreVars == <<call, returned>>

processVars == <<artifacts, feature_columns, exit_code>>

fitVars == <<refit>>

vars == <<streamVars, alertVars, scoreVars, processVars, fitVars>>

-----------------------------------------------------------------------------
(* Bounds of the model *)

MaxDocs == 3        \* documents the index may hold
MaxClock == 3       \* the wall clock stops the model at this many poll intervals
MaxBatch == 2       \* events one alerting cycle reads; synthetic anomalies it draws
MaxAlertCycles == 2 \* monitoring cycles before end_time

(* Program constants *)

InferenceQuerySize == 10   \* "size": 10
MonitorQuerySize == 50     \* "size": 50
MonitorWindow == 12        \* timedelta(minutes=1) over time.sleep(5)

Unit == 3 * 20             \* 1.0 in sixtieths

NoneIter == 0 - 1          \* max_iterations = None

Detectors == {"isolation_forest", "one_class_svm", "lof_detector"}

(* What a loaded detector does with the feature vector of a document: it    *)
(* predicts 1 (normal), predicts -1 (anomaly), or raises.  A lof_detector   *)
(* without a predict attribute counts as "anomaly" in score_record          *)
(* (pred = -1 when hasattr(model, 'predict') is false).                     *)
Outcomes == {"normal", "anomaly", "raise"}

(* Detector sets a run starts with, and max_iterations arguments *)
LoadedChoices == {Detectors, {}}
IterationChoices == {NoneIter, 0, 2}

Min(a, b) == IF a < b THEN a ELSE b
Max(a, b) == IF a > b THEN a ELSE b

-----------------------------------------------------------------------------
(* Documents.  prep = FALSE: the record is malformed so that feature        *)
(* preparation raises in score_record (engineer_features of the monitor     *)
(* swallows the same failure and returns the zero vector).                  *)

OutcomeVectors == [Detectors -> Outcomes]

AllOut(o) == [d \in Detectors |-> o]

StreamOutcomes ==
    { AllOut("normal"),
      AllOut("anomaly"),
      [AllOut("anomaly") EXCEPT !["isolation_forest"] = "raise"] }

DocsAt(now) == [ts : 0..now, prep : {TRUE}, out : StreamOutcomes]

-----------------------------------------------------------------------------
(* Feature engineering.  An event is taken by the set of raw fields it      *)
(* carries; feature_columns is the schema _load_models read from the        *)
(* optimization results ({} = none read, the default feature set is used).  *)

RawFields == {"method", "url", "status", "size", "http_user_agent", "@timestamp"}

DefaultFeatureColumns ==
    {"status", "size", "risk_score", "response_time",
     "method_encoded", "url_length", "has_script", "has_sql", "has_traversal"}

(* The schemas a results file may hold: none, the engineer's own set, a set *)
(* with a column of the monitor's trainer that the engineer never computes  *)
FeatureColumnChoices ==
    {{}, DefaultFeatureColumns, DefaultFeatureColumns \cup {"hour_of_day"}}

(* Columns of the frame after _engineer_features_single_record has added    *)
(* its features and its defaults to the fields of the record                *)
EngineeredColumns(present) == present \cup DefaultFeatureColumns

(* _engineer_features_single_record raises: df.get('method', 'GET') is the  *)
(* string 'GET' when the record has no method, and a string has no .map;    *)
(* df[self.feature_columns] raises KeyError on a column the frame lacks.    *)
EngineerFeaturesRaises(present, schema) ==
    \/ "method" \notin present
    \/ ~(schema \subseteq EngineeredColumns(present))

(* RealTimeMLMonitor.engineer_features: every field is read with a default  *)
(* and the whole body is under try/except, which returns the zero vector.   *)
MonitorFeaturesRaise(present) == FALSE

-----------------------------------------------------------------------------
(* RealTimeMLInference.score_record *)

ScoreRecordAnomaly == 30     \* is_anomaly = ensemble_score > 0.5
anomaly_threshold == 42      \* self.anomaly_threshold = 0.7
ScoreRecordCritical == 48    \* ensemble_score > 0.8
ScoreRecordHigh == 36        \* ensemble_score > 0.6
ScoreRecordMedium == 18      \* ensemble_score > 0.3

(* The try block raises when feature preparation raises, or when the        *)
(* isolation forest or the one-class SVM raises: only the LOF call has a    *)
(* try/except of its own.                                                   *)
ScoreRecordRaises(record, loaded) ==
    \/ ~record.prep
    \/ \E d \in loaded \ {"lof_detector"} : record.out[d] = "raise"

(* predictions: 1 if pred == -1 else 0; a raising LOF is entered as 0 *)
IndividualPredictions(record, loaded) ==
    [d \in loaded |-> IF record.out[d] = "anomaly" THEN 1 ELSE 0]

Votes(predictions) == Cardinality({d \in DOMAIN predictions : predictions[d] = 1})

(* The vote taken over all three detectors instead of the loaded ones *)
EnsembleVoteOverAll(predictions) ==
    (Votes(predictions) * Unit) \div Cardinality(Detectors)

(* sum(predictions.values()) / len(predictions), or 0 without predictions *)
EnsembleVote(predictions) ==
    IF DOMAIN predictions # {}
    THEN (Votes(predictions) * Unit) \div Cardinality(DOMAIN predictions)
    ELSE 0

ScoreRecordRiskLevel(ensemble_score) ==
    IF ensemble_score > ScoreRecordCritical THEN "CRITICAL"
    ELSE IF ensemble_score > ScoreRecordHigh THEN "HIGH"
    ELSE IF ensemble_score > ScoreRecordMedium THEN "MEDIUM"
    ELSE "LOW"

(* record.get('@timestamp', datetime.now().isoformat()) *)
ResultTimestamp(record, now) == IF record.ts # 0 THEN record.ts ELSE now

(* The dictionary score_record returns (client_ip, url_path, status_code    *)
(* and individual_scores are echoed values no caller decides on).           *)
ScoreRecord(record, loaded, now) ==
    IF ScoreRecordRaises(record, loaded)
    THEN [error |-> "Scoring failed", timestamp |-> ResultTimestamp(record, now)]
    ELSE LET predictions == IndividualPredictions(record, loaded)
             ensemble_score == EnsembleVote(predictions)
         IN  [timestamp |-> ResultTimestamp(record, now),
              is_anomaly |-> ensemble_score > ScoreRecordAnomaly,
              ensemble_score |-> ensemble_score,
              risk_level |-> ScoreRecordRiskLevel(ensemble_score),
              individual_predictions |-> predictions]

IsError(result) == "error" \in DOMAIN result

-----------------------------------------------------------------------------
(* RealTimeMLMonitor.predict_anomaly *)

PredictCritical == 45    \* ensemble_score >= 0.75
PredictHigh == 30        \* ensemble_score >= 0.5
PredictMedium == 15      \* ensemble_score >= 0.25

(* model.predict(features)[0]; a model that raises is entered as 1 *)
ModelPredictions(event, loaded) ==
    [d \in loaded |-> IF event.out[d] = "anomaly" THEN 0 - 1 ELSE 1]

AnomalyVotes(predictions) ==
    Cardinality({d \in DOMAIN predictions : predictions[d] = 0 - 1})

PredictRiskLevel(ensemble_score) ==
    IF ensemble_score >= PredictCritical THEN "CRITICAL"
    ELSE IF ensemble_score >= PredictHigh THEN "HIGH"
    ELSE IF ensemble_score >= PredictMedium THEN "MEDIUM"
    ELSE "LOW"

(* elif model_name == 'lof_detector': pred = model.fit_predict(features)[0] *)
(* The loaded LocalOutlierFactor is fitted again, on the one row of the     *)
(* event; fit replaces its training data before anything can raise.         *)
RefitByPredict(loaded) == loaded \cap {"lof_detector"}

(* The dictionary predict_anomaly returns (model_scores and the wall-clock  *)
(* timestamp left out).  engineer_features and the per-model try/except     *)
(* swallow every exception, so the outer except branch is never taken.      *)
PredictAnomaly(event, loaded) ==
    LET predictions == ModelPredictions(event, loaded)
        anomaly_votes == AnomalyVotes(predictions)
        total_models == Cardinality(DOMAIN predictions)
        ensemble_score == IF total_models > 0
                          THEN (anomaly_votes * Unit) \div total_models
                          ELSE 0
    IN  [is_anomaly |-> 2 * anomaly_votes > total_models,
         ensemble_score |-> ensemble_score,
         risk_level |-> PredictRiskLevel(ensemble_score),
         model_predictions |-> predictions]

-----------------------------------------------------------------------------
(* The Elasticsearch index as the consumers query it: hits sorted by        *)
(* @timestamp descending, documents without the field last, ties in any     *)
(* order, at most `size` hits.                                              *)

Orderings(S) ==
    {f \in [1..Cardinality(S) -> S] : \A i, j \in DOMAIN f : i # j => f[i] # f[j]}

SortedDesc(S) ==
    {f \in Orderings(S) : \A i \in DOMAIN f : i + 1 \in DOMAIN f => f[i].ts >= f[i + 1].ts}

SearchHits(matching, size) ==
    {SubSeq(f, 1, Min(size, Len(f))) : f \in SortedDesc(matching)}

(* The hits as the search returned them, newest first *)
NotReversed(s) == s

(* reversed(hits) *)
RECURSIVE Reversed(_)
Reversed(s) == IF s = <<>> THEN <<>> ELSE Append(Reversed(Tail(s)), Head(s))

NoDoc == [ts |-> 0 - 1]

(* marks: the values the watermark held in the cycle, oldest first;       *)
(* order: the documents handed to the scoring call in the cycle, first to  *)
(* last                                                                     *)
NoCycle ==
    [query |-> "none", failed |-> {}, alerts |-> {}, latest |-> NoDoc, marks |-> <<0>>,
     order |-> <<>>]

(* A new document is indexed; it carries a timestamp up to the present or   *)
(* none at all.                                                             *)
Arrive ==
    /\ Cardinality(index) < MaxDocs
    /\ \E doc \in DocsAt(clock) \ index :
         /\ index' = index \cup {doc}
         /\ scored' = [d \in index' |-> IF d \in index THEN scored[d] ELSE 0]
         /\ alerted' = [d \in index' |-> IF d \in index THEN alerted[d] ELSE 0]
    /\ UNCHANGED <<clock, optimized_models, last_processed_timestamp, iteration,
                   max_iterations, models, stats, running, pc, visited, cycle>>
    /\ UNCHANGED <<alertVars, scoreVars, processVars, fitVars>>

-----------------------------------------------------------------------------
(* RealTimeMLInference.monitor_new_logs *)

(* match_all, plus range @timestamp gt last_processed_timestamp once it is set *)
InferenceMatching(docs, watermark) ==
    IF watermark # 0
    THEN {d \in docs : d.ts # 0 /\ d.ts > watermark}
    ELSE docs

(* for hit in reversed(hits): the body of the loop, folded over the batch *)
RECURSIVE ScoreBatch(_, _, _, _)
ScoreBatch(hits, loaded, now, st) ==
    IF hits = <<>> THEN st
    ELSE LET record == Head(hits)
             result == ScoreRecord(record, loaded, now)
             called == [st EXCEPT !.order = Append(@, record)]
             next == IF ~IsError(result)
                     THEN [called EXCEPT !.watermark = result.timestamp,
                                     !.marks = Append(@, result.timestamp),
                                     !.latest = record,
                                     !.done = @ \cup {record},
                                     !.alerts = IF result.is_anomaly
                                                THEN @ \cup {record} ELSE @]
                     ELSE [called EXCEPT !.failed = @ \cup {record}]
         IN  ScoreBatch(Tail(hits), loaded, now, next)

InferenceLoopExits ==
    max_iterations # NoneIter /\ max_iterations # 0 /\ iteration >= max_iterations

InferenceStart ==
    /\ pc = "init"
    /\ pc' = "inference"
    /\ iteration' = 0
    /\ UNCHANGED <<clock, index, optimized_models, last_processed_timestamp,
                   max_iterations, models, stats, running, scored, alerted, visited, cycle>>
    /\ UNCHANGED <<alertVars, scoreVars, processVars, fitVars>>

(* One iteration whose search answers *)
InferencePoll ==
    /\ pc = "inference" /\ ~InferenceLoopExits /\ clock < MaxClock
    /\ \E hits \in SearchHits(InferenceMatching(index, last_processed_timestamp),
                              InferenceQuerySize) :
         LET st == ScoreBatch(Reversed(hits), optimized_models, clock,
                              [watermark |-> last_processed_timestamp,
                               latest |-> cycle.latest, done |-> {},
                               alerts |-> {}, failed |-> {},
                               marks |-> <<last_processed_timestamp>>, order |-> <<>>])
         IN  /\ last_processed_timestamp' = st.watermark
             /\ scored' = [d \in index |-> scored[d] + IF d \in st.done THEN 1 ELSE 0]
             /\ alerted' = [d \in index |-> alerted[d] + IF d \in st.alerts THEN 1 ELSE 0]
             /\ visited' = visited \cup {hits[i] : i \in DOMAIN hits}
             /\ cycle' = [query |-> "ok", failed |-> st.failed, alerts |-> st.alerts,
                          latest |-> st.latest, marks |-> st.marks, order |-> st.order]
    /\ iteration' = iteration + 1
    /\ clock' = clock + 1
    /\ UNCHANGED <<index, optimized_models, max_iterations, models, stats, running, pc>>
    /\ UNCHANGED <<alertVars, scoreVars, processVars, fitVars>>

(* One iteration whose search raises (connection failure, timeout) *)
InferenceQueryError ==
    /\ pc = "inference" /\ ~InferenceLoopExits /\ clock < MaxClock
    /\ cycle' = [NoCycle EXCEPT !.query = "error", !.latest = cycle.latest,
                                !.marks = <<last_processed_timestamp>>]
    /\ iteration' = iteration + 1
    /\ clock' = clock + 1
    /\ UNCHANGED <<index, optimized_models, last_processed_timestamp, max_iterations,
                   models, stats, running, pc, scored, alerted, visited>>
    /\ UNCHANGED <<alertVars, scoreVars, processVars, fitVars>>

(* break: monitor_new_logs returns and main ends, exit code 0 *)
InferenceBreak ==
    /\ pc = "inference" /\ InferenceLoopExits
    /\ pc' = "done"
    /\ exit_code' = 0
    /\ UNCHANGED <<clock, index, optimized_models, last_processed_timestamp, iteration,
                   max_iterations, models, stats, running, scored, alerted, visited, cycle>>
    /\ UNCHANGED <<alertVars, scoreVars, artifacts, feature_columns, fitVars>>

-----------------------------------------------------------------------------
(* RealTimeMLMonitor.process_event_stream *)

(* range @timestamp gte now - 1 minute, lte now *)
MonitorMatching(docs, now) ==
    {d \in docs : d.ts # 0 /\ d.ts >= now - MonitorWindow /\ d.ts <= now}

(* A stricter-than-written deduplication test: equal timestamps pass *)
AlreadyProcessedStrict(event_time, last_processed) ==
    last_processed # 0 /\ event_time < last_processed

(* if self.stats['last_processed'] and event_time <= self.stats['last_processed'] *)
AlreadyProcessed(event_time, last_processed) ==
    last_processed # 0 /\ event_time <= last_processed

(* The loop body with the high-risk counter raised ahead of, and instead    *)
(* of, the anomaly counter                                                  *)
RECURSIVE ProcessEventsRiskFirst(_, _, _)
ProcessEventsRiskFirst(events, loaded, st) ==
    IF events = <<>> THEN st
    ELSE LET event == Head(events)
             event_time == event.ts
             prediction == PredictAnomaly(event, loaded)
             high == IF prediction.risk_level \in {"HIGH", "CRITICAL"} THEN 1 ELSE 0
             anomalous == IF prediction.is_anomaly /\ high = 0 THEN 1 ELSE 0
         IN  IF st.stats.last_processed # 0 /\ event_time = 0
             THEN st
             ELSE IF AlreadyProcessed(event_time, st.stats.last_processed)
             THEN ProcessEventsRiskFirst(Tail(events), loaded, st)
             ELSE ProcessEventsRiskFirst(Tail(events), loaded,
                    [st EXCEPT !.stats = [events_processed |-> @.events_processed + 1,
                                          anomalies_detected |-> @.anomalies_detected + anomalous,
                                          high_risk_events |-> @.high_risk_events + high,
                                          last_processed |-> event_time],
                               !.latest = event,
                               !.marks = Append(@, event_time),
                               !.order = Append(@, event),
                               !.done = @ \cup {event},
                               !.alerts = IF prediction.is_anomaly THEN @ \cup {event} ELSE @])

(* for hit in events: the body of the loop, folded over the hits in the     *)
(* order the search returned them.  Comparing a missing @timestamp (None)   *)
(* with a set last_processed raises; the except around the query ends the   *)
(* batch there.                                                             *)
RECURSIVE ProcessEvents(_, _, _)
ProcessEvents(events, loaded, st) ==
    IF events = <<>> THEN st
    ELSE LET event == Head(events)
             event_time == event.ts
             prediction == PredictAnomaly(event, loaded)
             anomalous == IF prediction.is_anomaly THEN 1 ELSE 0
             high == IF prediction.is_anomaly /\ prediction.risk_level \in {"HIGH", "CRITICAL"}
                     THEN 1 ELSE 0
         IN  IF st.stats.last_processed # 0 /\ event_time = 0
             THEN st
             ELSE IF AlreadyProcessed(event_time, st.stats.last_processed)
             THEN ProcessEvents(Tail(events), loaded, st)
             ELSE ProcessEvents(Tail(events), loaded,
                    [st EXCEPT !.stats = [events_processed |-> @.events_processed + 1,
                                          anomalies_detected |-> @.anomalies_detected + anomalous,
                                          high_risk_events |-> @.high_risk_events + high,
                                          last_processed |-> event_time],
                               !.latest = event,
                               !.marks = Append(@, event_time),
                               !.order = Append(@, event),
                               !.done = @ \cup {event},
                               !.alerts = IF prediction.is_anomaly THEN @ \cup {event} ELSE @])

MonitorStart ==
    /\ pc = "init"
    /\ pc' = "monitor"
    /\ running' = TRUE
    /\ UNCHANGED <<clock, index, optimized_models, last_processed_timestamp, iteration,
                   max_iterations, models, stats, scored, alerted, visited, cycle>>
    /\ UNCHANGED <<alertVars, scoreVars, processVars, fitVars>>

(* One pass of the while loop whose search answers *)
MonitorPoll ==
    /\ pc = "monitor" /\ running /\ clock < MaxClock
    /\ \E events \in SearchHits(MonitorMatching(index, clock), MonitorQuerySize) :
         LET st == ProcessEvents(events, models,
                                 [stats |-> stats, latest |-> cycle.latest, done |-> {},
                                  alerts |-> {}, marks |-> <<stats.last_processed>>,
                                  order |-> <<>>])
         IN  /\ stats' = st.stats
             /\ scored' = [d \in index |-> scored[d] + IF d \in st.done THEN 1 ELSE 0]
             /\ alerted' = [d \in index |-> alerted[d] + IF d \in st.alerts THEN 1 ELSE 0]
             /\ visited' = visited \cup st.done
             /\ cycle' = [query |-> "ok", failed |-> {}, alerts |-> st.alerts,
                          latest |-> st.latest, marks |-> st.marks, order |-> st.order]
             /\ refit' = IF st.order # <<>> THEN refit \cup RefitByPredict(models)
                         ELSE refit
    /\ clock' = clock + 1
    /\ UNCHANGED <<index, optimized_models, last_processed_timestamp, iteration,
                   max_iterations, models, running, pc>>
    /\ UNCHANGED <<alertVars, scoreVars, processVars>>

(* One pass whose search fails: search_with_query catches the failure and   *)
(* answers with no hits.                                                    *)
MonitorQueryError ==
    /\ pc = "monitor" /\ running /\ clock < MaxClock
    /\ cycle' = [NoCycle EXCEPT !.query = "error", !.latest = cycle.latest,
                                !.marks = <<stats.last_processed>>]
    /\ clock' = clock + 1
    /\ UNCHANGED <<index, optimized_models, last_processed_timestamp, iteration,
                   max_iterations, models, stats, running, pc, scored, alerted, visited>>
    /\ UNCHANGED <<alertVars, scoreVars, processVars, fitVars>>

(* datetime.now() reaches end_time: the loop ends, finally: running = False *)
MonitorFinish ==
    /\ pc = "monitor" /\ running /\ clock >= MaxClock
    /\ running' = FALSE
    /\ pc' = "done"
    /\ exit_code' = 0
    /\ UNCHANGED <<clock, index, optimized_models, last_processed_timestamp, iteration,
                   max_iterations, models, stats, scored, alerted, visited, cycle>>
    /\ UNCHANGED <<alertVars, scoreVars, artifacts, feature_columns, fitVars>>

(* What the process exits with when a signal is handled the default way:    *)
(* ended by the signal itself, status 128 + signum                          *)
SignalExitDefault(signum) == 128 + signum

(* signal_handler: sys.exit(0), for SIGINT and SIGTERM alike *)
SignalExit(signum) == 0

Signals == {2, 15}

(* SIGINT or SIGTERM while process_event_stream runs: signal_handler raises *)
(* SystemExit(0) where the loop stands (in its sleep, its query or its      *)
(* batch); no except clause of the loop or of main matches SystemExit, the  *)
(* finally clause sets running = False and the process exits.  The batch of *)
(* a cycle is processed in one step, so a signal falls between two cycles.  *)
MonitorSignal ==
    /\ pc = "monitor" /\ running
    /\ \E signum \in Signals : exit_code' = SignalExit(signum)
    /\ running' = FALSE
    /\ pc' = "stopped"
    /\ UNCHANGED <<clock, index, optimized_models, last_processed_timestamp, iteration,
                   max_iterations, models, stats, scored, alerted, visited, cycle>>
    /\ UNCHANGED <<alertVars, scoreVars, artifacts, feature_columns, fitVars>>

-----------------------------------------------------------------------------
(* MLAlertingSystem: risk scoring and severity *)

alert_thresholds == [CRITICAL |-> 54, HIGH |-> 42, MEDIUM |-> 30, LOW |-> 18]

UrlRisk == 18       \* risk_score += 0.3
AgentRisk == 12     \* risk_score += 0.2
MethodRisk == 6     \* risk_score += 0.1
StatusRisk == 6     \* risk_score += 0.1
RandomMax == 24     \* random.uniform(0, 0.4)
SyntheticMin == 30  \* random.uniform(0.5, 1.0)
SyntheticMost == 5  \* random.randint(1, 5)

Severities == {"CRITICAL", "HIGH", "MEDIUM", "LOW"}

NoCounts == [s \in Severities |-> 0]

(* _calculate_risk_score; rand is the draw of random.uniform(0, 0.4).       *)
(* url: the URL holds one of the patterns; agent: the user agent holds one  *)
(* of the tool names; method: PUT, DELETE or PATCH; status: code >= 400.    *)
CalculateRiskScore(event, rand) ==
    Min((IF event.url THEN UrlRisk ELSE 0)
          + (IF event.agent THEN AgentRisk ELSE 0)
          + (IF event.method THEN MethodRisk ELSE 0)
          + (IF event.status THEN StatusRisk ELSE 0)
          + rand,
        Unit)

GetSeverityLevel(risk_score) ==
    IF risk_score >= alert_thresholds.CRITICAL THEN "CRITICAL"
    ELSE IF risk_score >= alert_thresholds.HIGH THEN "HIGH"
    ELSE IF risk_score >= alert_thresholds.MEDIUM THEN "MEDIUM"
    ELSE "LOW"

(* Reporting from the lowest tier upwards *)
IsReportedFromLow(risk_score) == risk_score >= alert_thresholds.LOW

(* if risk_score >= self.alert_thresholds['MEDIUM'] *)
IsReported(risk_score) == risk_score >= alert_thresholds.MEDIUM

Anomaly(risk_score, ip) ==
    [risk_score |-> risk_score, severity |-> GetSeverityLevel(risk_score), ip_address |-> ip]

(* The for loop with a suppression it does not have: once an alert record  *)
(* was logged, an event that would be reported is passed over.              *)
RECURSIVE CheckEventsSuppressing(_, _)
CheckEventsSuppressing(recent_data, st) ==
    IF recent_data = <<>> THEN st
    ELSE LET event == Head(recent_data)
             risk_score == CalculateRiskScore(event, event.rand)
         IN  IF ~event.ok THEN [st EXCEPT !.raised = TRUE]
             ELSE IF IsReported(risk_score) /\ alert_log.anomaly_count < 0
             THEN LET anomaly == Anomaly(risk_score, event.ip)
                  IN  CheckEventsSuppressing(Tail(recent_data),
                        [st EXCEPT !.anomalies = Append(@, anomaly),
                                   !.counts[anomaly.severity] = @ + 1])
             ELSE CheckEventsSuppressing(Tail(recent_data), st)

(* The for loop of check_ml_anomalies over recent_data.  An event whose     *)
(* fields _calculate_risk_score cannot handle (event.ok = FALSE) raises:    *)
(* the loop stops with raised set and the counts made so far.               *)
RECURSIVE CheckEvents(_, _)
CheckEvents(recent_data, st) ==
    IF recent_data = <<>> THEN st
    ELSE LET event == Head(recent_data)
             risk_score == CalculateRiskScore(event, event.rand)
         IN  IF ~event.ok THEN [st EXCEPT !.raised = TRUE]
             ELSE IF IsReported(risk_score)
             THEN LET anomaly == Anomaly(risk_score, event.ip)
                  IN  CheckEvents(Tail(recent_data),
                        [st EXCEPT !.anomalies = Append(@, anomaly),
                                   !.counts[anomaly.severity] = @ + 1])
             ELSE CheckEvents(Tail(recent_data), st)

(* _generate_synthetic_anomalies, for the draws it makes *)
RECURSIVE CountSynthetic(_, _)
CountSynthetic(synthetic, counts) ==
    IF synthetic = <<>> THEN counts
    ELSE CountSynthetic(Tail(synthetic),
                        [counts EXCEPT ![Head(synthetic).severity] = @ + 1])

(* automated_response: the addresses of the CRITICAL anomalies, 'N/A' left out *)
CriticalIps(anomalies) ==
    {anomalies[i].ip_address : i \in {j \in DOMAIN anomalies :
        anomalies[j].severity = "CRITICAL" /\ anomalies[j].ip_address # "N/A"}}

(* log_alert: the record it writes *)
AlertData(anomalies, counts) ==
    [anomaly_count |-> Len(anomalies), severity_breakdown |-> counts]

-----------------------------------------------------------------------------
(* MLAlertingSystem.run_monitoring_cycle *)

Flags(url, agent, method, status) ==
    [url |-> url, agent |-> agent, method |-> method, status |-> status]

(* Events of the index: a plain request, a request of a scanning tool, an   *)
(* attack that trips all four factors; rand is the random draw their        *)
(* scoring makes; ok = FALSE is an event _calculate_risk_score raises on.   *)
AlertEvents ==
    { [url |-> f.url, agent |-> f.agent, method |-> f.method, status |-> f.status,
       ip |-> ip, rand |-> rand, ok |-> TRUE] :
        f \in {Flags(FALSE, FALSE, FALSE, FALSE), Flags(FALSE, TRUE, FALSE, FALSE),
               Flags(TRUE, TRUE, TRUE, TRUE)},
        ip \in {"10.0.0.1", "N/A"},
        rand \in {0, RandomMax} }
      \cup { [url |-> FALSE, agent |-> FALSE, method |-> FALSE, status |-> TRUE,
              ip |-> "10.0.0.1", rand |-> 0, ok |-> FALSE] }

SeqsUpTo(S, lo, hi) == UNION {[1..n -> S] : n \in lo..hi}

SyntheticAnomalies ==
    {Anomaly(risk_score, ip) :
        risk_score \in {SyntheticMin, alert_thresholds.CRITICAL},
        ip \in {"192.168.1.1", "192.168.1.2"}}

NoAlertCycle == [query |-> "none", synthetic |-> FALSE, data |-> <<>>, anomalies |-> <<>>]

NoAlertData == [anomaly_count |-> 0 - 1]

AlertStart ==
    /\ alert_pc = "init"
    /\ alert_pc' = "check"
    /\ cycle_count' = 0
    /\ UNCHANGED <<alert_counts, incidents, alert_log, alert_cycle>>
    /\ UNCHANGED <<streamVars, scoreVars, processVars, fitVars>>

(* The head of one pass of the while loop: check_ml_anomalies.              *)
(* search_data answers with the events of the index, or with [] when the    *)
(* request fails or the utility is not connected.                           *)
AlertCheck ==
    /\ alert_pc = "check" /\ cycle_count < MaxAlertCycles
    /\ \E query \in {"ok", "failed"} :
       \E recent_data \in IF query = "ok" THEN SeqsUpTo(AlertEvents, 0, MaxBatch) ELSE {<<>>} :
         LET checked == CheckEvents(recent_data,
                          [anomalies |-> <<>>, counts |-> alert_counts, raised |-> FALSE])
             fallback == recent_data = <<>> \/ checked.raised
         IN  \E synthetic \in IF fallback
                              THEN SeqsUpTo(SyntheticAnomalies, 1, Min(SyntheticMost, MaxBatch))
                              ELSE {<<>>} :
               /\ alert_cycle' = [query |-> query, synthetic |-> fallback,
                                  data |-> recent_data,
                                  anomalies |-> IF fallback THEN synthetic
                                                ELSE checked.anomalies]
               /\ alert_counts' = IF fallback THEN CountSynthetic(synthetic, checked.counts)
                                  ELSE checked.counts
    /\ cycle_count' = cycle_count + 1
    /\ alert_pc' = "respond"
    /\ UNCHANGED <<incidents, alert_log>>
    /\ UNCHANGED <<streamVars, scoreVars, processVars, fitVars>>

(* The rest of the pass without the last statement of automated_response:   *)
(* the counters are left as the cycle counted them.                         *)
AlertRespondKeepingCounts ==
    /\ alert_pc = "respond"
    /\ LET anomalies == alert_cycle.anomalies
           critical_ips == CriticalIps(anomalies)
       IN  \E written \in IF critical_ips # {} THEN BOOLEAN ELSE {TRUE} :
             /\ alert_log' = IF anomalies # <<>> THEN AlertData(anomalies, alert_counts)
                             ELSE alert_log
             /\ incidents' = IF critical_ips # {} /\ written
                             THEN Append(incidents, critical_ips) ELSE incidents
             /\ alert_pc' = IF written THEN "check" ELSE "failed"
    /\ alert_cycle' = NoAlertCycle
    /\ UNCHANGED <<cycle_count, alert_counts>>
    /\ UNCHANGED <<streamVars, scoreVars, processVars, fitVars>>

(* The rest of the pass: for a non-empty list log_alert and                 *)
(* automated_response.  An incident write that raises leaves                *)
(* run_monitoring_cycle through main's except (exit code 1).                *)
AlertRespond ==
    /\ alert_pc = "respond"
    /\ LET anomalies == alert_cycle.anomalies
           critical_ips == CriticalIps(anomalies)
       IN  \E written \in IF critical_ips # {} THEN BOOLEAN ELSE {TRUE} :
             /\ alert_log' = IF anomalies # <<>> THEN AlertData(anomalies, alert_counts)
                             ELSE alert_log
             /\ incidents' = IF critical_ips # {} /\ written
                             THEN Append(incidents, critical_ips) ELSE incidents
             /\ alert_counts' = IF anomalies # <<>> /\ written THEN NoCounts ELSE alert_counts
             /\ alert_pc' = IF written THEN "check" ELSE "failed"
    /\ alert_cycle' = NoAlertCycle
    /\ UNCHANGED cycle_count
    /\ UNCHANGED <<streamVars, scoreVars, processVars, fitVars>>

AlertFinish ==
    /\ alert_pc = "check" /\ cycle_count >= MaxAlertCycles
    /\ alert_pc' = "done"
    /\ UNCHANGED <<alert_counts, incidents, cycle_count, alert_log, alert_cycle>>
    /\ UNCHANGED <<streamVars, scoreVars, processVars, fitVars>>

-----------------------------------------------------------------------------
(* AdvancedMLAnomalyDetector.create_ensemble_score.  Weights are kept in    *)
(* sixtieths like the scores, so a weighted score is a number of 1/3600;    *)
(* a value of the score array is [nan, num], nan = TRUE for numpy's NaN.    *)

MaxSamples == 2     \* rows of the feature matrix

Algorithms == {"isolation_forest", "one_class_svm", "local_outlier_factor", "dbscan"}

(* weights = None: 0.3, 0.3, 0.25, 0.15 *)
default_weights ==
    [isolation_forest |-> 18, one_class_svm |-> 18, local_outlier_factor |-> 15, dbscan |-> 9]

Num(n) == [nan |-> FALSE, num |-> n]

NaN == [nan |-> TRUE, num |-> 0]

Add(a, b) == IF a.nan \/ b.nan THEN NaN ELSE Num(a.num + b.num)

Times(weight, score) == IF score.nan THEN NaN ELSE Num(weight * score.num)

Range(f) == {f[i] : i \in DOMAIN f}

SeqMin(raw) == CHOOSE m \in Range(raw) : \A v \in Range(raw) : m <= v

SeqMax(raw) == CHOOSE m \in Range(raw) : \A v \in Range(raw) : m >= v

(* (raw_scores - raw_scores.min()) / (raw_scores.max() - raw_scores.min()): *)
(* 0/0 is NaN in numpy, with a warning and no exception                     *)
MinMaxScaled(raw, i) ==
    IF SeqMax(raw) = SeqMin(raw) THEN NaN
    ELSE Num(((raw[i] - SeqMin(raw)) * Unit) \div (SeqMax(raw) - SeqMin(raw)))

(* 1 / (1 + np.exp(-raw_scores)) at the factors the model draws, to the     *)
(* nearest sixtieth: 0.269 at -1, 0.119 at -2                               *)
Sigmoid(x) == IF x = 0 - 1 THEN Num(16) ELSE IF x = 0 - 2 THEN Num(7) ELSE Num(Unit \div 2)

(* scores of one algorithm at row i, as the loop body takes them *)
AlgorithmScore(algorithm, entry, i) ==
    IF algorithm = "dbscan" THEN Num(entry[i] * Unit)
    ELSE IF algorithm = "local_outlier_factor" THEN Sigmoid(entry[i])
    ELSE MinMaxScaled(entry, i)

(* The weights of the algorithms in S, summed *)
RECURSIVE WeightSum(_, _)
WeightSum(S, weights) ==
    IF S = {} THEN 0
    ELSE LET a == CHOOSE x \in S : TRUE
         IN  weights[a] + WeightSum(S \ {a}, weights)

(* A fusion that rescales the weights of the algorithms that have scores    *)
(* so that they sum to 1                                                    *)
WeightedTermRenormalized(algorithm, weights, anomaly_scores, i) ==
    IF algorithm \in DOMAIN weights /\ algorithm \in DOMAIN anomaly_scores
    THEN Times((weights[algorithm] * Unit)
                 \div WeightSum(DOMAIN weights \cap DOMAIN anomaly_scores, weights),
               AlgorithmScore(algorithm, anomaly_scores[algorithm], i))
    ELSE Num(0)

(* ensemble_scores += weight * scores, for the algorithms that have scores *)
WeightedTerm(algorithm, weights, anomaly_scores, i) ==
    IF algorithm \in DOMAIN weights /\ algorithm \in DOMAIN anomaly_scores
    THEN Times(weights[algorithm], AlgorithmScore(algorithm, anomaly_scores[algorithm], i))
    ELSE Num(0)

EnsembleScores(weights, anomaly_scores) ==
    [i \in 1..MaxSamples |->
        Add(Add(WeightedTerm("isolation_forest", weights, anomaly_scores, i),
                WeightedTerm("one_class_svm", weights, anomaly_scores, i)),
            Add(WeightedTerm("local_outlier_factor", weights, anomaly_scores, i),
                WeightedTerm("dbscan", weights, anomaly_scores, i)))]

(* np.percentile(ensemble_scores, 90), times ten: linear interpolation      *)
(* between the two order statistics around position 0.9 * (n - 1)           *)
Percentile90Times10(scores) ==
    LET n == Len(scores)
        sorted == CHOOSE t \in [1..n -> Range(scores)] :
                    /\ \A i \in 1..(n - 1) : t[i].num <= t[i + 1].num
                    /\ \A v \in Range(scores) :
                         Cardinality({i \in 1..n : t[i] = v})
                           = Cardinality({i \in 1..n : scores[i] = v})
        k == (9 * (n - 1)) \div 10
        r == (9 * (n - 1)) % 10
    IN  IF r = 0 THEN 10 * sorted[k + 1].num
        ELSE 10 * sorted[k + 1].num + r * (sorted[k + 2].num - sorted[k + 1].num)

(* (ensemble_scores > np.percentile(ensemble_scores, 90)).astype(int); a    *)
(* comparison with NaN is False                                             *)
EnsembleAnomalies(scores) ==
    IF \E i \in DOMAIN scores : scores[i].nan THEN [i \in DOMAIN scores |-> 0]
    ELSE [i \in DOMAIN scores |->
            IF 10 * scores[i].num > Percentile90Times10(scores) THEN 1 ELSE 0]

(* What create_ensemble_score stores under anomaly_scores['ensemble'] and   *)
(* returns (the scores)                                                     *)
CreateEnsembleScore(weights, anomaly_scores) ==
    LET ensemble_scores == EnsembleScores(weights, anomaly_scores)
    IN  [scores |-> ensemble_scores, predictions |-> EnsembleAnomalies(ensemble_scores)]

-----------------------------------------------------------------------------
(* Single calls of the scorers and classifiers, over all their arguments *)

NoCall == [fn |-> "none"]

ScoreCalls ==
    [fn : {"score_record", "predict_anomaly"}, prep : BOOLEAN, out : OutcomeVectors,
     loaded : SUBSET Detectors]

RiskCalls ==
    [fn : {"_calculate_risk_score"}, event : [url : BOOLEAN, agent : BOOLEAN,
                                               method : BOOLEAN, status : BOOLEAN],
     rand : 0..RandomMax]

CallScoreRecord ==
    /\ call = NoCall
    /\ \E c \in {x \in ScoreCalls : x.fn = "score_record"} :
         /\ call' = c
         /\ returned' = ScoreRecord([ts |-> 1, prep |-> c.prep, out |-> c.out], c.loaded, 1)
    /\ UNCHANGED <<streamVars, alertVars, processVars, fitVars>>

CallPredictAnomaly ==
    /\ call = NoCall
    /\ \E c \in {x \in ScoreCalls : x.fn = "predict_anomaly"} :
         /\ call' = c
         /\ returned' = PredictAnomaly([ts |-> 1, prep |-> c.prep, out |-> c.out], c.loaded)
         /\ refit' = refit \cup RefitByPredict(c.loaded)
    /\ UNCHANGED <<streamVars, alertVars, processVars>>

(* _calculate_risk_score, then _get_severity_level on the score as          *)
(* check_ml_anomalies chains them                                           *)
CallRiskScore ==
    /\ call = NoCall
    /\ \E c \in RiskCalls :
         LET risk_score == CalculateRiskScore(c.event, c.rand)
         IN  /\ call' = c
             /\ returned' = [ensemble_score |-> risk_score,
                             risk_level |-> GetSeverityLevel(risk_score),
                             reported |-> IsReported(risk_score)]
    /\ UNCHANGED <<streamVars, alertVars, processVars, fitVars>>

(* decision_function values of two rows (anomalous below, normal above),    *)
(* negative outlier factors, DBSCAN noise flags                             *)
RawChoices(algorithm) ==
    IF algorithm = "dbscan" THEN [1..MaxSamples -> {0, 1}]
    ELSE IF algorithm = "local_outlier_factor" THEN [1..MaxSamples -> {0 - 2, 0 - 1}]
    ELSE [1..MaxSamples -> {0 - 1, 1}]

(* anomaly_scores: the algorithms that were trained, with their scores *)
AnomalyScoreChoices ==
    {[a \in present |-> full[a]] :
        full \in [isolation_forest : RawChoices("isolation_forest"),
                  one_class_svm : RawChoices("one_class_svm"),
                  local_outlier_factor : RawChoices("local_outlier_factor"),
                  dbscan : RawChoices("dbscan")],
        present \in SUBSET Algorithms}

(* the weights argument: None, every algorithm at 1.0, one algorithm alone *)
WeightChoices ==
    {default_weights, [a \in Algorithms |-> Unit], [isolation_forest |-> Unit]}

CallCreateEnsembleScore ==
    /\ call = NoCall
    /\ \E weights \in WeightChoices, anomaly_scores \in AnomalyScoreChoices :
         /\ call' = [fn |-> "create_ensemble_score", weights |-> weights,
                     anomaly_scores |-> anomaly_scores]
         /\ returned' = CreateEnsembleScore(weights, anomaly_scores)
    /\ UNCHANGED <<streamVars, alertVars, processVars, fitVars>>

(* score_record on an event that carries the fields `present`, under the   *)
(* schema feature_columns; all detectors loaded, none of them raising       *)
CallScoreRecordOnFields ==
    /\ call = NoCall
    /\ \E present \in SUBSET RawFields, schema \in FeatureColumnChoices :
         LET prep == ~EngineerFeaturesRaises(present, schema)
         IN  /\ call' = [fn |-> "score_record", prep |-> prep, out |-> AllOut("normal"),
                         loaded |-> Detectors, present |-> present,
                         feature_columns |-> schema]
             /\ returned' = ScoreRecord([ts |-> 1, prep |-> prep, out |-> AllOut("normal")],
                                        Detectors, 1)
    /\ UNCHANGED <<streamVars, alertVars, processVars, fitVars>>

(* predict_anomaly on an event that carries the fields `present` *)
CallPredictAnomalyOnFields ==
    /\ call = NoCall
    /\ \E present \in SUBSET RawFields :
         LET prep == ~MonitorFeaturesRaise(present)
         IN  /\ call' = [fn |-> "predict_anomaly", prep |-> prep, out |-> AllOut("normal"),
                         loaded |-> Detectors, present |-> present, feature_columns |-> {}]
             /\ returned' = PredictAnomaly([ts |-> 1, prep |-> prep, out |-> AllOut("normal")],
                                           Detectors)
             /\ refit' = refit \cup RefitByPredict(Detectors)
    /\ UNCHANGED <<streamVars, alertVars, processVars>>

(* The call that just returned is made once more on the same event, with   *)
(* the same loaded detectors; _calculate_risk_score draws from              *)
(* random.uniform again.  previous keeps what the first call returned.      *)
CallAgain ==
    /\ call.fn \in {"score_record", "predict_anomaly", "_calculate_risk_score"}
    /\ "previous" \notin DOMAIN returned
    /\ \/ /\ call.fn = "score_record"
          /\ call' = call
          /\ returned' = ScoreRecord([ts |-> 1, prep |-> call.prep, out |-> call.out],
                                     call.loaded, 1)
                           @@ [previous |-> returned]
          /\ refit' = refit
       \/ /\ call.fn = "predict_anomaly"
          /\ call' = call
          /\ returned' = PredictAnomaly([ts |-> 1, prep |-> call.prep, out |-> call.out],
                                        call.loaded)
                           @@ [previous |-> returned]
          /\ refit' = refit \cup RefitByPredict(call.loaded)
       \/ /\ call.fn = "_calculate_risk_score"
          /\ \E rand \in 0..RandomMax :
               LET risk_score == CalculateRiskScore(call.event, rand)
               IN  /\ call' = [call EXCEPT !.rand = rand]
                   /\ returned' = [ensemble_score |-> risk_score,
                                   risk_level |-> GetSeverityLevel(risk_score),
                                   reported |-> IsReported(risk_score),
                                   previous |-> returned]
          /\ refit' = refit
    /\ UNCHANGED <<streamVars, alertVars, processVars>>

Return ==
    /\ call # NoCall
    /\ call' = NoCall
    /\ returned' = NoCall
    /\ UNCHANGED <<streamVars, alertVars, processVars, fitVars>>

-----------------------------------------------------------------------------
(* Specifications.  A deployment runs one program: one of the two stream    *)
(* consumers (Spec), the alerting system (SpecAlert); SpecScore calls the   *)
(* scorers one call at a time.                                              *)

NoStats == [events_processed |-> 0, anomalies_detected |-> 0, high_risk_events |-> 0,
            last_processed |-> 0]

StreamInit(loadedChoices, iterationChoices) ==
    /\ clock = 1
    /\ index = {}
    /\ \E loaded \in loadedChoices : optimized_models = loaded /\ models = loaded
    /\ last_processed_timestamp = 0
    /\ iteration = 0
    /\ max_iterations \in iterationChoices
    /\ stats = NoStats
    /\ running = FALSE
    /\ pc = "init"
    /\ scored = [d \in {} |-> 0]
    /\ alerted = [d \in {} |-> 0]
    /\ visited = {}
    /\ cycle = NoCycle

AlertInit ==
    /\ alert_counts = NoCounts
    /\ incidents = <<>>
    /\ cycle_count = 0
    /\ alert_pc = "init"
    /\ alert_log = NoAlertData
    /\ alert_cycle = NoAlertCycle

ScoreInit ==
    /\ call = NoCall
    /\ returned = NoCall

NoExit == 0 - 1

(* A running process whose constructor found the detectors it holds *)
ProcessInit ==
    /\ artifacts = models
    /\ feature_columns = {}
    /\ exit_code = NoExit
    /\ refit = {}

Init == StreamInit(LoadedChoices, IterationChoices) /\ AlertInit /\ ScoreInit /\ ProcessInit

Next ==
    \/ Arrive
    \/ InferenceStart
    \/ InferencePoll
    \/ InferenceQueryError
    \/ InferenceBreak
    \/ MonitorStart
    \/ MonitorPoll
    \/ MonitorQueryError
    \/ MonitorFinish
    \/ MonitorSignal

Spec == Init /\ [][Next]_vars

InitAlert == StreamInit({{}}, {NoneIter}) /\ AlertInit /\ ScoreInit /\ ProcessInit

NextAlert ==
    \/ AlertStart
    \/ AlertCheck
    \/ AlertRespond
    \/ AlertFinish

SpecAlert == InitAlert /\ [][NextAlert]_vars

NextScore ==
    \/ CallScoreRecord
    \/ CallPredictAnomaly
    \/ CallRiskScore
    \/ CallCreateEnsembleScore
    \/ CallScoreRecordOnFields
    \/ CallPredictAnomalyOnFields
    \/ CallAgain
    \/ Return

SpecScore == InitAlert /\ [][NextScore]_vars

-----------------------------------------------------------------------------
(* Startup: the constructors load the artifacts model_dir holds, main()     *)
(* goes on to the loop.                                                     *)

Artifacts == Detectors \cup {"scaler", "optimization_results"}

(* RealTimeMLInference.__init__ / _load_models: every detector file found   *)
(* is loaded, a missing one is reported and passed over; feature_columns is *)
(* read from the results file when there is one and the glob for            *)
(* optimized_*.joblib found a file.  The value returned (False for a        *)
(* missing directory or no model file at all) is not looked at.             *)
LoadModels ==
    /\ pc = "boot"
    /\ optimized_models' = artifacts \cap Detectors
    /\ feature_columns' \in IF /\ "optimization_results" \in artifacts
                               /\ artifacts \cap (Detectors \cup {"scaler"}) # {}
                            THEN FeatureColumnChoices ELSE {{}}
    /\ pc' = "loaded_inference"
    /\ UNCHANGED <<clock, index, last_processed_timestamp, iteration, max_iterations,
                   models, stats, running, scored, alerted, visited, cycle>>
    /\ UNCHANGED <<alertVars, scoreVars, artifacts, exit_code, fitVars>>

(* RealTimeMLMonitor.__init__ / _load_ml_models *)
LoadMLModels ==
    /\ pc = "boot"
    /\ models' = artifacts \cap Detectors
    /\ pc' = "loaded_monitor"
    /\ UNCHANGED <<clock, index, optimized_models, last_processed_timestamp, iteration,
                   max_iterations, stats, running, scored, alerted, visited, cycle>>
    /\ UNCHANGED <<alertVars, scoreVars, processVars, fitVars>>

(* realtime_ml_inference.main: monitor_new_logs is called whatever was loaded *)
MainInference ==
    /\ pc = "loaded_inference"
    /\ pc' = "inference"
    /\ iteration' = 0
    /\ UNCHANGED <<clock, index, optimized_models, last_processed_timestamp,
                   max_iterations, models, stats, running, scored, alerted, visited, cycle>>
    /\ UNCHANGED <<alertVars, scoreVars, processVars, fitVars>>

(* realtime_ml_monitor.main: if not monitor.models: sys.exit(1) *)
MainMonitorExit ==
    /\ pc = "loaded_monitor" /\ models = {}
    /\ pc' = "done"
    /\ exit_code' = 1
    /\ UNCHANGED <<clock, index, optimized_models, last_processed_timestamp, iteration,
                   max_iterations, models, stats, running, scored, alerted, visited, cycle>>
    /\ UNCHANGED <<alertVars, scoreVars, artifacts, feature_columns, fitVars>>

(* realtime_ml_monitor.main: process_event_stream is entered *)
MainMonitor ==
    /\ pc = "loaded_monitor" /\ models # {}
    /\ pc' = "monitor"
    /\ running' = TRUE
    /\ UNCHANGED <<clock, index, optimized_models, last_processed_timestamp, iteration,
                   max_iterations, models, stats, scored, alerted, visited, cycle>>
    /\ UNCHANGED <<alertVars, scoreVars, processVars, fitVars>>

(* The first iteration of monitor_new_logs, on an index that holds one      *)
(* event carrying the fields `present`: the body of the loop with           *)
(* _prepare_feature_vector working under the loaded feature_columns.        *)
InferenceFirstPoll ==
    /\ pc = "inference" /\ cycle.query = "none"
    /\ \E present \in SUBSET RawFields :
         LET record == [ts |-> clock,
                        prep |-> ~EngineerFeaturesRaises(present, feature_columns),
                        out |-> AllOut("normal")]
             st == ScoreBatch(<<record>>, optimized_models, clock,
                              [watermark |-> last_processed_timestamp,
                               latest |-> cycle.latest, done |-> {},
                               alerts |-> {}, failed |-> {},
                               marks |-> <<last_processed_timestamp>>, order |-> <<>>])
         IN  /\ index' = {record}
             /\ last_processed_timestamp' = st.watermark
             /\ scored' = [d \in {record} |-> IF d \in st.done THEN 1 ELSE 0]
             /\ alerted' = [d \in {record} |-> IF d \in st.alerts THEN 1 ELSE 0]
             /\ visited' = {record}
             /\ cycle' = [query |-> "ok", failed |-> st.failed, alerts |-> st.alerts,
                          latest |-> st.latest, marks |-> st.marks, order |-> st.order]
    /\ iteration' = iteration + 1
    /\ clock' = clock + 1
    /\ UNCHANGED <<optimized_models, max_iterations, models, stats, running, pc>>
    /\ UNCHANGED <<alertVars, scoreVars, processVars, fitVars>>

InitStart ==
    /\ clock = 1
    /\ index = {}
    /\ optimized_models = {}
    /\ models = {}
    /\ last_processed_timestamp = 0
    /\ iteration = 0
    /\ max_iterations = NoneIter
    /\ stats = NoStats
    /\ running = FALSE
    /\ pc = "boot"
    /\ refit = {}
    /\ scored = [d \in {} |-> 0]
    /\ alerted = [d \in {} |-> 0]
    /\ visited = {}
    /\ cycle = NoCycle
    /\ AlertInit /\ ScoreInit
    /\ artifacts \in SUBSET Artifacts
    /\ feature_columns = {}
    /\ exit_code = NoExit

NextStart ==
    \/ LoadModels
    \/ LoadMLModels
    \/ MainInference
    \/ MainMonitorExit
    \/ MainMonitor
    \/ InferenceFirstPoll

SpecStart == InitStart /\ [][NextStart]_vars

-----------------------------------------------------------------------------
(* Properties *)

(* The watermark of the consumer that runs (the other one's stays None) *)
Watermark == Max(last_processed_timestamp, stats.last_processed)

Polled == clock' = clock + 1 /\ cycle'.query = "ok"

(* C1: over any sequence of polling cycles the watermark of a stream        *)
(* consumer never takes a value smaller than one it held before: the values *)
(* it holds in a cycle, from the one it enters the cycle with to the one it *)
(* leaves it with, never step down.                                         *)
C1_WatermarkNeverDecreases ==
    \A i, j \in DOMAIN cycle.marks : i < j => cycle.marks[i] <= cycle.marks[j]

(* C1, between cycles: no cycle leaves the watermark below the value it had *)
(* when the cycle began.                                                    *)
C1_WatermarkKeptAcrossCycles ==
    [][/\ last_processed_timestamp' >= last_processed_timestamp
       /\ stats'.last_processed >= stats.last_processed]_vars

(* C2: an event of the source whose timestamp is greater than the watermark *)
(* is not skipped for good: after a cycle whose query answered it has been  *)
(* handed to the scorer, or its timestamp is still greater than the         *)
(* watermark, so that a later cycle fetches it.                             *)
C2_NoEventSkipped ==
    [][Polled =>
         \A d \in index :
            (d.ts # 0 /\ (Watermark = 0 \/ d.ts > Watermark))
              => (d \in visited' \/ d.ts > Watermark')]_vars

(* C3: an event is scored at most once and alerted at most once over the    *)
(* lifetime of the consumer, however often the source holds it out again.   *)
C3_ScoredAtMostOnce ==
    \A d \in index : scored[d] <= 1 /\ alerted[d] <= 1

(* C3, its case: the monitor's latest search returned an event that an      *)
(* earlier cycle had scored and alerted, and the cycle left it alone.       *)
C3_ReplayedEventSeen ==
    /\ pc = "monitor"
    /\ cycle.query = "ok"
    /\ \E d \in MonitorMatching(index, clock - 1) :
         scored[d] = 1 /\ alerted[d] = 1 /\ d \notin cycle.alerts /\ cycle.latest # d

(* C4: after every cycle the watermark is the timestamp carried by the most *)
(* recent successfully processed event, and it is unset as long as no event *)
(* was processed.                                                           *)
C4_WatermarkIsLatestTimestamp ==
    IF cycle.latest = NoDoc THEN Watermark = 0 ELSE Watermark = cycle.latest.ts

(* C5: a cycle whose event-source query fails raises no alert (stream       *)
(* consumers and alerting system alike).                                    *)
C5_QueryFailureRaisesNoAlert ==
    /\ cycle.query = "error" => cycle.alerts = {}
    /\ alert_cycle.query = "failed" => alert_cycle.anomalies = <<>>

(* C5, the stream consumers' part: a failed query keeps the watermark and   *)
(* the loop goes on.                                                        *)
C5_StreamQueryFailureKeepsWatermark ==
    [][clock' = clock + 1 /\ cycle'.query = "error"
         => Watermark' = Watermark /\ pc' = pc /\ cycle'.alerts = {}]_vars

(* C6: after a cycle the watermark has passed every event of the batch      *)
(* whose scoring returned an error.                                         *)
C6_FailedEventIsPassed ==
    \A d \in cycle.failed : Watermark # 0 /\ d.ts <= Watermark

Raising(c) == {d \in c.loaded : c.out[d] = "raise"}

Surviving(c) == c.loaded \ Raising(c)

Predictions(verdict) ==
    IF "individual_predictions" \in DOMAIN verdict THEN verdict.individual_predictions
    ELSE verdict.model_predictions

SurvivorFusion(c) ==
    IF Surviving(c) = {} THEN 0
    ELSE (Cardinality({d \in Surviving(c) : c.out[d] = "anomaly"}) * Unit)
           \div Cardinality(Surviving(c))

IsScorerCall == call.fn \in {"score_record", "predict_anomaly"} /\ call.prep

(* C7: when a loaded detector raises, the event still gets a verdict, the   *)
(* raising detector is no entry of its votes, and the fused score is the    *)
(* share of anomalous verdicts among the detectors that did not raise.      *)
C7_FailedDetectorExcluded ==
    (IsScorerCall /\ Raising(call) # {})
      => /\ ~IsError(returned)
         /\ DOMAIN Predictions(returned) = Surviving(call)
         /\ returned.ensemble_score = SurvivorFusion(call)

(* C8: when no detector produces a verdict (none loaded, or all raise) the  *)
(* scorer returns a verdict of score 0.0 and tier LOW that carries a mark   *)
(* of the degraded state.                                                   *)
C8_NoVerdictIsFlagged ==
    (IsScorerCall /\ Surviving(call) = {})
      => /\ "ensemble_score" \in DOMAIN returned
         /\ returned.ensemble_score = 0
         /\ returned.risk_level = "LOW"
         /\ DOMAIN returned \cap {"error", "degraded"} # {}

DefaultTier(score) ==
    IF score >= (9 * Unit) \div 10 THEN "CRITICAL"
    ELSE IF score >= (7 * Unit) \div 10 THEN "HIGH"
    ELSE IF score >= (5 * Unit) \div 10 THEN "MEDIUM"
    ELSE IF score >= (3 * Unit) \div 10 THEN "LOW"
    ELSE "none"

(* C9: every risk classifier maps a score of at least 0.3 to the tier of    *)
(* the default bands 0.9 / 0.7 / 0.5 / 0.3, a score on a threshold to the   *)
(* higher tier.                                                             *)
C9_DefaultBands ==
    ("risk_level" \in DOMAIN returned /\ returned.ensemble_score >= (3 * Unit) \div 10)
      => returned.risk_level = DefaultTier(returned.ensemble_score)

(* C9, the alerting system's classifier alone *)
C9_SeverityLevelBands ==
    (call.fn = "_calculate_risk_score" /\ returned.ensemble_score >= (3 * Unit) \div 10)
      => returned.risk_level = DefaultTier(returned.ensemble_score)

(* C10: in a cycle on real data an event raises an alert exactly when its   *)
(* score is at or above the LOW threshold, of tier LOW when the score is    *)
(* below the MEDIUM threshold.                                              *)
C10_AlertAtLowThreshold ==
    (alert_cycle.query = "ok" /\ ~alert_cycle.synthetic)
      => \A i \in DOMAIN alert_cycle.data :
           LET event == alert_cycle.data[i]
               risk_score == CalculateRiskScore(event, event.rand)
               alerts == {a \in {alert_cycle.anomalies[j] : j \in DOMAIN alert_cycle.anomalies} :
                            a.risk_score = risk_score /\ a.ip_address = event.ip}
           IN  /\ risk_score >= alert_thresholds.LOW <=> alerts # {}
               /\ risk_score < alert_thresholds.MEDIUM => \A a \in alerts : a.severity = "LOW"

(* C11: with majority-vote fusion, whatever verdicts the loaded detectors   *)
(* give, the fused score is the number of anomalous verdicts divided by the *)
(* number of detectors that gave a verdict.                                 *)
C11_MajorityVoteShare ==
    (IsScorerCall /\ call.loaded # {} /\ Raising(call) = {})
      => /\ ~IsError(returned)
         /\ returned.ensemble_score * Cardinality(call.loaded)
              = Cardinality({d \in call.loaded : call.out[d] = "anomaly"}) * Unit

(* C11, its case: two detectors are loaded and they disagree *)
C11_SplitVoteScored ==
    /\ IsScorerCall /\ Raising(call) = {}
    /\ Cardinality(call.loaded) = 2
    /\ \E d, e \in call.loaded : call.out[d] = "anomaly" /\ call.out[e] = "normal"
    /\ returned.ensemble_score = Unit \div 2

(* C12: the fused score lies in [0,1]: the majority vote of the scorers for *)
(* every vote combination, and every value create_ensemble_score returns    *)
(* for every set of trained algorithms and every weights argument.          *)
C12_FusedScoreInUnitInterval ==
    /\ "ensemble_score" \in DOMAIN returned => returned.ensemble_score \in 0..Unit
    /\ call.fn = "create_ensemble_score"
         => \A i \in DOMAIN returned.scores :
              ~returned.scores[i].nan /\ returned.scores[i].num \in 0..(Unit * Unit)

(* C12, the majority vote alone *)
C12_MajorityVoteInUnitInterval ==
    "ensemble_score" \in DOMAIN returned => returned.ensemble_score \in 0..Unit

(* C12, create_ensemble_score with the default weights: a value that is a   *)
(* number lies in [0,1]                                                     *)
C12_DefaultWeightsInUnitInterval ==
    (call.fn = "create_ensemble_score" /\ call.weights = default_weights)
      => \A i \in DOMAIN returned.scores :
           returned.scores[i].nan \/ returned.scores[i].num \in 0..(Unit * Unit)

(* C13: a failure to write the incident record does not end the monitoring  *)
(* loop: the cycle completes with the counters reset and the loop is ready  *)
(* for the next cycle.  (A pass that has addresses to record and leaves     *)
(* security_incidents.log as it was is a pass whose write failed.)          *)
C13_IncidentWriteFailureSurvived ==
    [][(alert_pc = "respond" /\ CriticalIps(alert_cycle.anomalies) # {}
          /\ incidents' = incidents)
         => (alert_pc' = "check" /\ alert_counts' = NoCounts)]_vars

HasCritical(anomalies) == \E i \in DOMAIN anomalies : anomalies[i].severity = "CRITICAL"

(* C14: a cycle with at least one CRITICAL alert appends exactly one        *)
(* incident record, holding each distinct source address of its CRITICAL    *)
(* alerts once; a cycle without CRITICAL alerts appends none.  (Cycles      *)
(* whose write fails are left to C13.)                                      *)
C14_CriticalCycleWritesIncident ==
    [][(alert_pc = "respond" /\ alert_pc' # "failed")
         => IF HasCritical(alert_cycle.anomalies)
            THEN incidents' = Append(incidents, CriticalIps(alert_cycle.anomalies))
            ELSE incidents' = incidents]_vars

(* C14, for the cycles whose CRITICAL alerts carry an address *)
C14_AddressedCriticalWritesIncident ==
    [][(alert_pc = "respond" /\ alert_pc' # "failed")
         => IF CriticalIps(alert_cycle.anomalies) # {}
            THEN incidents' = Append(incidents, CriticalIps(alert_cycle.anomalies))
            ELSE incidents' = incidents]_vars

(* C15: scoring the same event a second time with the same artifacts gives  *)
(* what the first scoring gave: the same verdicts, the same score, the same *)
(* tier.                                                                    *)
C15_RescoringGivesSameResult ==
    "previous" \in DOMAIN returned
      => \A field \in DOMAIN returned.previous : returned[field] = returned.previous[field]

(* C16: whatever raw fields an event lacks, feature engineering returns a   *)
(* feature vector and the event is scored: under a schema the engineer can  *)
(* serve, a missing field makes no scoring error.                           *)
C16_MissingFieldIsNoScoringError ==
    ("present" \in DOMAIN call /\ call.feature_columns \subseteq DefaultFeatureColumns)
      => call.prep /\ ~IsError(returned)

(* C16, the monitor's engineer_features alone *)
C16_MonitorFeaturesNeverFail ==
    ("present" \in DOMAIN call /\ call.fn = "predict_anomaly")
      => call.prep /\ ~IsError(returned)

RequiredInference == Detectors \cup {"scaler", "optimization_results"}

RequiredMonitor == Detectors \cup {"scaler"}

(* C17: with a required artifact missing (a detector model, the scaler, the *)
(* feature schema) the process exits with code 1 and its monitoring loop is *)
(* never entered.                                                           *)
C17_MissingArtifactStopsStartup ==
    /\ pc = "inference" => RequiredInference \subseteq artifacts
    /\ pc = "monitor" => RequiredMonitor \subseteq artifacts
    /\ pc = "done" => exit_code = 1

(* C17, what main() of the monitor does check: no detector at all *)
C17_MonitorWithoutDetectorExits ==
    /\ pc = "monitor" => artifacts \cap Detectors # {}
    /\ pc = "done" => exit_code = 1

(* C18: a feature schema naming a column the engineer does not compute      *)
(* aborts the startup: with such a schema the loop is never entered and no  *)
(* event of a cycle fails in scoring.                                       *)
C18_SchemaMismatchStopsStartup ==
    ~(feature_columns \subseteq DefaultFeatureColumns)
      => pc # "inference" /\ cycle.failed = {}

(* C19: a stop signal ends the monitor with exit code 0 and its loop not    *)
(* running, and once stopped no cycle starts: nothing is queried or scored, *)
(* whatever arrives in the index.                                           *)
C19_StopSignalEndsLoop ==
    [][/\ pc' = "stopped" => exit_code' = 0 /\ ~running'
       /\ pc = "stopped" => /\ pc' = "stopped" /\ exit_code' = exit_code
                            /\ clock' = clock /\ stats' = stats
                            /\ visited' = visited /\ cycle' = cycle
                            /\ \A d \in index : scored'[d] = scored[d]]_vars

(* C19, its case: the signal stopped a monitor that had scored events and   *)
(* had time left, and an unscored event waits in the index                  *)
C19_StoppedWithWorkLeft ==
    /\ pc = "stopped" /\ exit_code = 0
    /\ stats.events_processed > 0
    /\ clock < MaxClock
    /\ \E d \in index : scored[d] = 0 /\ d.ts > stats.last_processed

(* C20: within one cycle the events of the fetched batch are scored in      *)
(* ascending timestamp order: of two scored events of the batch that carry  *)
(* different timestamps, the one with the smaller timestamp is scored       *)
(* first.  A document without @timestamp has no place in that order.        *)
C20_ScoredInAscendingOrder ==
    \A i, j \in DOMAIN cycle.order :
        (i < j /\ cycle.order[i].ts # 0 /\ cycle.order[j].ts # 0)
            => cycle.order[i].ts <= cycle.order[j].ts

(* A cycle of monitor_new_logs that scored two events of different age *)
C20_TwoAgesScored ==
    /\ pc = "inference" /\ cycle.query = "ok"
    /\ Len(cycle.order) >= 2
    /\ cycle.order[1].ts # 0
    /\ cycle.order[1].ts < cycle.order[2].ts
    /\ cycle.failed = {}

(* C21: scoring an event leaves the loaded detector models, the scaler and  *)
(* the label encoders as they were right after load: nothing is fitted      *)
(* again at inference time.                                                 *)
C21_ArtifactsUnchangedByScoring == refit = {}

(* monitor_new_logs only reads its estimators (predict, decision_function,  *)
(* transform): scoring there leaves them as loaded.                         *)
C21_InferenceScoringOnlyReads ==
    (pc = "inference" /\ visited # {}) => refit = {}

(* method GET, status 200, a browser user agent, a URL without a pattern *)
IsNormalEvent(event) ==
    ~event.url /\ ~event.agent /\ ~event.method /\ ~event.status /\ event.ok

(* C22: a well-formed normal event never produces an alert, in any cycle:   *)
(* the anomalies check_ml_anomalies reports from the events it read are at  *)
(* most as many as the events that are not normal.                          *)
C22_NormalEventRaisesNoAlert ==
    (alert_pc = "respond" /\ ~alert_cycle.synthetic)
        => Len(alert_cycle.anomalies)
             <= Cardinality({i \in DOMAIN alert_cycle.data :
                                ~IsNormalEvent(alert_cycle.data[i])})

(* A cycle read a normal event with the highest random draw next to an      *)
(* attack, and reported the attack alone                                    *)
C22_NormalEventBesideAttack ==
    /\ alert_pc = "respond" /\ ~alert_cycle.synthetic
    /\ \E i \in DOMAIN alert_cycle.data :
         IsNormalEvent(alert_cycle.data[i]) /\ alert_cycle.data[i].rand = RandomMax
    /\ Len(alert_cycle.anomalies) = 1

(* score_record and predict_anomaly on an event every loaded detector calls *)
(* normal: the event is no anomaly.                                         *)
C22_NormalVerdictsAreNoAnomaly ==
    (/\ call.fn \in {"score_record", "predict_anomaly"}
     /\ \A d \in call.loaded : call.out[d] = "normal"
     /\ ~IsError(returned))
        => ~returned.is_anomaly

(* The events of a batch whose risk score of this cycle reaches the         *)
(* reporting threshold, and the anomalies they make, from the batch alone   *)
ReportedOf(data) ==
    SelectSeq(data, LAMBDA e : IsReported(CalculateRiskScore(e, e.rand)))

AnomaliesOf(data) ==
    [i \in DOMAIN ReportedOf(data) |->
        Anomaly(CalculateRiskScore(ReportedOf(data)[i], ReportedOf(data)[i].rand),
                ReportedOf(data)[i].ip)]

(* C23: alerts are not suppressed or deduplicated across cycles: which      *)
(* events of a cycle are alerted, and at which tier, follows from the       *)
(* events the cycle read and their scores alone, whatever was alerted in    *)
(* the cycles before.                                                       *)
C23_AlertsIndependentOfEarlierCycles ==
    (alert_pc = "respond" /\ ~alert_cycle.synthetic)
        => alert_cycle.anomalies = AnomaliesOf(alert_cycle.data)

(* The second cycle alerts an attack after the first cycle logged an alert *)
C23_AlertedAgainInSecondCycle ==
    /\ alert_pc = "respond" /\ ~alert_cycle.synthetic
    /\ cycle_count = 2
    /\ alert_log.anomaly_count >= 1
    /\ \E i \in DOMAIN alert_cycle.data :
         /\ alert_cycle.data[i].url /\ alert_cycle.data[i].agent
         /\ alert_cycle.data[i].rand = 0
    /\ alert_cycle.anomalies # <<>>

(* C24: at the start of every monitoring cycle of run_monitoring_cycle all  *)
(* per-tier alert counters are zero, whichever path the cycles before took. *)
C24_CountersZeroAtCycleStart ==
    alert_pc = "check" => alert_counts = NoCounts

(* A cycle starts after a cycle that found and logged alerts *)
C24_CycleAfterAlerts ==
    /\ alert_pc = "check" /\ cycle_count >= 1 /\ cycle_count < MaxAlertCycles
    /\ alert_log.anomaly_count >= 1

(* The alerts of tier s in a list of anomalies *)
TierCount(anomalies, s) ==
    Cardinality({i \in DOMAIN anomalies : anomalies[i].severity = s})

(* C26: whenever log_alert logs a cycle's alert record, each per-tier count *)
(* of severity_breakdown is the number of that cycle's alerts of the tier   *)
(* and the counts sum to anomaly_count, on every path of check_ml_anomalies.*)
C26_BreakdownMatchesAlerts ==
    [][(alert_pc = "respond" /\ alert_cycle.anomalies # <<>>)
         => /\ \A s \in Severities :
                 alert_log'.severity_breakdown[s] = TierCount(alert_cycle.anomalies, s)
            /\ alert_log'.anomaly_count
                 = alert_log'.severity_breakdown.CRITICAL + alert_log'.severity_breakdown.HIGH
                   + alert_log'.severity_breakdown.MEDIUM + alert_log'.severity_breakdown.LOW]_vars

(* On the path where every event read is scored without an exception, and  *)
(* on the path without data, the logged breakdown is that of the alerts.    *)
C26_BreakdownMatchesWithoutException ==
    [][(/\ alert_pc = "respond" /\ alert_cycle.anomalies # <<>>
        /\ \A i \in DOMAIN alert_cycle.data : alert_cycle.data[i].ok)
         => \A s \in Severities :
              alert_log'.severity_breakdown[s] = TierCount(alert_cycle.anomalies, s)]_vars

(* The sum of weight times normalized score at row i over the algorithms S *)
RECURSIVE WeightedSum(_, _, _, _)
WeightedSum(S, weights, anomaly_scores, i) ==
    IF S = {} THEN Num(0)
    ELSE LET a == CHOOSE x \in S : TRUE
         IN  Add(Times(weights[a], AlgorithmScore(a, anomaly_scores[a], i)),
                 WeightedSum(S \ {a}, weights, anomaly_scores, i))

(* C25: in weighted-sum fusion the fused score is the sum, over the         *)
(* detectors that have results, of weight times normalized score; a         *)
(* detector without results adds 0 and the other weights are used as given. *)
C25_FusedScoreIsWeightedSum ==
    call.fn = "create_ensemble_score"
        => \A i \in 1..MaxSamples :
             returned.scores[i]
               = WeightedSum(DOMAIN call.weights \cap DOMAIN call.anomaly_scores,
                             call.weights, call.anomaly_scores, i)

(* Fusion with the default weights when DBSCAN and the one-class SVM have   *)
(* no results: a row scores with the two remaining weights, below their sum *)
C25_FusedWithoutTwoDetectors ==
    /\ call.fn = "create_ensemble_score"
    /\ call.weights = default_weights
    /\ DOMAIN call.anomaly_scores = {"isolation_forest", "local_outlier_factor"}
    /\ \E i \in 1..MaxSamples :
         /\ ~returned.scores[i].nan
         /\ returned.scores[i].num = default_weights.isolation_forest * Unit
                                       + default_weights.local_outlier_factor * 16

(* C27: in monitor_new_logs an event is alerted as an anomaly exactly when  *)
(* its ensemble score exceeds the engine's anomaly_threshold, the threshold *)
(* the loop announces.  The loop alerts on the is_anomaly of score_record.  *)
C27_AlertedAboveAnomalyThreshold ==
    (call.fn = "score_record" /\ ~IsError(returned))
        => (returned.is_anomaly <=> returned.ensemble_score > anomaly_threshold)

(* A score above the announced threshold is always alerted *)
C27_AboveThresholdIsAlerted ==
    (call.fn = "score_record" /\ ~IsError(returned))
        => (returned.ensemble_score > anomaly_threshold => returned.is_anomaly)

(* C28: in predict_anomaly, for any number of loaded detectors and any      *)
(* combination of their verdicts, a risk_level of HIGH or CRITICAL implies  *)
(* is_anomaly, so that every such event is counted by process_event_stream. *)
C28_HighRiskIsAnomaly ==
    call.fn = "predict_anomaly"
        => (returned.risk_level \in {"HIGH", "CRITICAL"} => returned.is_anomaly)

(* With all three detectors loaded, or one alone, HIGH and CRITICAL are     *)
(* anomalies.                                                               *)
C28_HighRiskIsAnomalyOddCount ==
    (call.fn = "predict_anomaly" /\ Cardinality(call.loaded) \in {1, 3})
        => (returned.risk_level \in {"HIGH", "CRITICAL"} => returned.is_anomaly)

(* C29: monitor_new_logs called with max_iterations = N, for every integer  *)
(* N >= 0, performs at most N polling cycles and then returns.              *)
C29_AtMostMaxIterationsCycles ==
    (pc \in {"inference", "done"} /\ max_iterations # NoneIter)
        => iteration <= max_iterations

(* For N >= 1 the loop makes at most N cycles *)
C29_PositiveLimitIsKept ==
    (pc \in {"inference", "done"} /\ max_iterations # NoneIter /\ max_iterations >= 1)
        => iteration <= max_iterations

(* C30: after any sequence of events handled by process_event_stream        *)
(* high_risk_events <= anomalies_detected <= events_processed, and none of  *)
(* the three counters ever decreases.                                       *)
C30_StatisticsOrderedAndMonotone ==
    /\ [](/\ stats.high_risk_events <= stats.anomalies_detected
          /\ stats.anomalies_detected <= stats.events_processed)
    /\ [][/\ stats'.events_processed >= stats.events_processed
          /\ stats'.anomalies_detected >= stats.anomalies_detected
          /\ stats'.high_risk_events >= stats.high_risk_events]_vars

(* The monitor handled a normal event and a high-risk anomaly *)
C30_NormalAndHighRiskHandled ==
    /\ pc = "monitor"
    /\ stats.events_processed >= 2
    /\ stats.anomalies_detected >= 1
    /\ stats.high_risk_events >= 1
    /\ stats.anomalies_detected < stats.events_processed

=============================================================================
